---- MODULE Spec2Model ----
(***************************************************************************)
(* A model of livebench/common.py (game-key normalisation, the pairwise    *)
(* judgment loader, check_data / make_match_single, the provider retry     *)
(* loops) and of the house-traversal scorer.                               *)
(*                                                                         *)
(* Python values are modelled as follows.  A tuple or list is a sequence,  *)
(* a dict with string keys that the code reads by name is a record (a      *)
(* function on strings, so that `"winner" in obj` is                       *)
(* "winner" \in DOMAIN obj), and a dict the code iterates is a sequence of *)
(* <<key, value>> pairs in insertion order.                                *)
(***************************************************************************)
EXTENDS Integers, Sequences, FiniteSets, TLC

VARIABLES
    pc,             \* position of the running operation
    \* normalize_game_key_single, applied once and then to its own output
    gamekey, result, given, once, twice,
    \* normalize_game_key_dict
    judgment_dict, ret,
    \* load_pairwise_model_judgments
    lines, judge_dict, normalized,
    \* get_pairwise_judge_explanation on the loaded index
    asked, explanation,
    \* house_traversal_process_results
    ground_truth, llm_answer, score,
    \* check_data, then make_match_single on the same arguments
    questions, models, model_answers, multi_turn,
    check_result, match_result,
    \* the chat_completion_* retry loops
    binding, attempt, output, last

norm_vars == <<gamekey, result, given, once, twice, judgment_dict, ret>>
load_vars == <<lines, judge_dict, normalized>>
explain_vars == <<asked, explanation>>
score_vars == <<ground_truth, llm_answer, score>>
match_args == <<questions, models, model_answers, multi_turn>>
match_vars == <<match_args, check_result, match_result>>
retry_vars == <<binding, attempt, output, last>>
vars == <<pc, norm_vars, load_vars, explain_vars, score_vars, match_vars,
          retry_vars>>

\* ------------------------------------------------------------------ bounds

MaxWinners == 2     \* longest winners tuple handed to normalize_game_key_single
MaxLines == 3       \* longest judgment file read by the loader

\* --------------------------------------------------------------- universes

\* Model names, listed in increasing lexicographic (str.__lt__) order.
ModelNames == <<"alpha", "beta", "gamma">>
QuestionIds == {1, 2}
Judges == {<<"gpt-4", "pair-v2">>, <<"gpt-4", "pair-math-v1">>}
\* Winner labels a judge writes; "inconsistent" is produced by the loader.
Labels == {"model_1", "model_2", "tie"}
JudgmentTexts == {"x", "y"}

Range(s) == {s[i] : i \in DOMAIN s}

NameIndex(m) == CHOOSE i \in DOMAIN ModelNames : ModelNames[i] = m

\* Python's `model_1 < model_2` on the names above.
StrLess(a, b) == NameIndex(a) < NameIndex(b)

SeqsUpTo(S, n) == UNION {[1..k -> S] : k \in 0..n}

\* ------------------------------------------------- GameKey canonicaliser

\* reverse_model_map.get(x, x): the table is used at common.py:456 but is not
\* defined in common.py; its entries follow the relabelling the
\* specification describes (slot labels swap, every other label passes).
reverse_model_map_get(x) ==
    CASE x = "model_1" -> "model_2"
      [] x = "model_2" -> "model_1"
      [] OTHER -> x

\* A variant of normalize_game_key_single: the key is sorted but the two
\* game judgments are left in place.
normalize_game_key_single_noswap(key, res) ==
    IF StrLess(key[2], key[3])
    THEN <<key, res>>
    ELSE <<<<key[1], key[3], key[2]>>,
           [winners |-> [i \in DOMAIN res.winners |-> reverse_model_map_get(res.winners[i])],
            g1_judgment |-> res.g1_judgment,
            g2_judgment |-> res.g2_judgment]>>

\* A variant of normalize_game_key_single: the comparison is inverted.
normalize_game_key_single_inverted(key, res) ==
    IF StrLess(key[3], key[2])
    THEN <<key, res>>
    ELSE <<<<key[1], key[3], key[2]>>,
           [winners |-> [i \in DOMAIN res.winners |-> reverse_model_map_get(res.winners[i])],
            g1_judgment |-> res.g2_judgment,
            g2_judgment |-> res.g1_judgment]>>

\* normalize_game_key_single(gamekey, result) -> (gamekey, result)
normalize_game_key_single(key, res) ==
    IF StrLess(key[2], key[3])
    THEN <<key, res>>
    ELSE <<<<key[1], key[3], key[2]>>,
           [winners |-> [i \in DOMAIN res.winners |-> reverse_model_map_get(res.winners[i])],
            g1_judgment |-> res.g2_judgment,
            g2_judgment |-> res.g1_judgment]>>

\* Python dict operations on a sequence of <<key, value>> pairs.
DictKeys(d) == {d[i][1] : i \in DOMAIN d}
DictGet(d, k) == d[CHOOSE i \in DOMAIN d : d[i][1] = k][2]
\* d[k] = v: an existing key keeps its place, a new key goes last.
DictSet(d, k, v) ==
    IF k \in DictKeys(d)
    THEN [i \in DOMAIN d |-> IF d[i][1] = k THEN <<k, v>> ELSE d[i]]
    ELSE Append(d, <<k, v>>)

RECURSIVE normalize_items(_, _)
normalize_items(items, acc) ==
    IF items = <<>>
    THEN acc
    ELSE LET nw == normalize_game_key_single(Head(items)[1], Head(items)[2])
         IN  \* ret[new_key] = new_value
             normalize_items(Tail(items), DictSet(acc, nw[1], nw[2]))

\* normalize_game_key_dict(judgment_dict)
normalize_game_key_dict(d) == normalize_items(d, <<>>)

\* ------------------------------------------ normalize applied and re-applied

GameKeys == QuestionIds \X Range(ModelNames) \X Range(ModelNames)
Results == [winners : SeqsUpTo(Labels, MaxWinners),
            g1_judgment : JudgmentTexts,
            g2_judgment : JudgmentTexts]

\* The variables of the operations a specification does not run.
IdleNorm ==
    /\ gamekey = <<>> /\ result = <<>> /\ given = <<>>
    /\ once = <<>> /\ twice = <<>>
    /\ judgment_dict = <<>> /\ ret = <<>>

IdleLoad == lines = <<>> /\ judge_dict = <<>> /\ normalized = <<>>

IdleExplain == asked = <<>> /\ explanation = <<>>

IdleScore == ground_truth = <<>> /\ llm_answer = <<>> /\ score = <<>>

IdleMatch ==
    /\ questions = <<>> /\ models = <<>> /\ model_answers = <<>>
    /\ multi_turn = FALSE
    /\ check_result = <<>> /\ match_result = <<>>

IdleRetry == binding = "" /\ attempt = 0 /\ output = "" /\ last = ""

\* The results of the second entry of a two-entry judgment_dict.
OtherResults ==
    { [winners |-> <<>>, g1_judgment |-> "y", g2_judgment |-> "x"],
      [winners |-> <<"tie">>, g1_judgment |-> "x", g2_judgment |-> "x"] }

\* The mappings handed to normalize_game_key_dict: the one entry
\* gamekey -> result, alone or followed by an entry for the same question and
\* the same two models in the other order.
JudgmentDicts(key, res) ==
    {<< <<key, res>> >>} \cup
    IF key[2] = key[3]
    THEN {}
    ELSE {<< <<key, res>>, <<<<key[1], key[3], key[2]>>, other>> >> :
             other \in OtherResults}

InitNorm ==
    /\ pc = "call"
    /\ gamekey \in GameKeys
    /\ result \in Results
    /\ given = <<gamekey, result>>
    /\ once = <<>> /\ twice = <<>>
    /\ judgment_dict \in JudgmentDicts(gamekey, result)
    /\ ret = <<>>
    /\ IdleLoad /\ IdleExplain /\ IdleScore /\ IdleMatch /\ IdleRetry

\* new_gamekey, new_result = normalize_game_key_single(gamekey, result); the
\* caller's gamekey and result are only read.
Normalize ==
    /\ pc = "call"
    /\ once' = normalize_game_key_single(gamekey, result)
    /\ pc' = "normalized"
    /\ UNCHANGED <<gamekey, result, given, twice, judgment_dict, ret>>
    /\ UNCHANGED <<load_vars, explain_vars, score_vars, match_vars, retry_vars>>

\* normalize_game_key_single applied to its own output.
NormalizeAgain ==
    /\ pc = "normalized"
    /\ twice' = normalize_game_key_single(once[1], once[2])
    /\ pc' = "renormalized"
    /\ UNCHANGED <<gamekey, result, given, once, judgment_dict, ret>>
    /\ UNCHANGED <<load_vars, explain_vars, score_vars, match_vars, retry_vars>>

\* ret = normalize_game_key_dict(judgment_dict)
NormalizeDict ==
    /\ pc = "call"
    /\ ret' = normalize_game_key_dict(judgment_dict)
    /\ pc' = "dict_normalized"
    /\ UNCHANGED <<gamekey, result, given, once, twice, judgment_dict>>
    /\ UNCHANGED <<load_vars, explain_vars, score_vars, match_vars, retry_vars>>

NextNorm == Normalize \/ NormalizeAgain \/ NormalizeDict

SpecNorm == InitNorm /\ [][NextNorm]_vars

\* ------------------------------------------------------- Judgment loader

\* The (model_1, model_2) orders a judgment line names.
LoaderPairs == {<<"alpha", "beta">>, <<"beta", "alpha">>, <<"alpha", "alpha">>}
LoaderQuestionIds == {1}

\* The winner fields of a line: `winner` alone, `winner` beside the two game
\* winners, the two game winners agreeing and disagreeing, and only one of
\* the two game winners (no accepted combination).
WinnerFields ==
    { [winner |-> "model_1"],
      [winner |-> "tie", g1_winner |-> "model_1", g2_winner |-> "model_2"],
      [g1_winner |-> "model_1", g2_winner |-> "model_1"],
      [g1_winner |-> "model_1", g2_winner |-> "model_2"],
      [g1_winner |-> "model_1"] }

\* obj = json.loads(line) for line n of the file.  Judgment texts are opaque
\* to the loader; line n carries the texts <<n, "g1">> and <<n, "g2">>.
Obj(n, judge, qid, pair, wf) ==
    [judge |-> judge, question_id |-> qid,
     model_1 |-> pair[1], model_2 |-> pair[2],
     g1_judgment |-> <<n, "g1">>, g2_judgment |-> <<n, "g2">>] @@ wf

ValueError == "ValueError"

\* A variant of derive_winner: disagreeing games report game 1's winner.
derive_winner_first(obj) ==
    IF "winner" \in DOMAIN obj
    THEN obj.winner
    ELSE IF "g1_winner" \in DOMAIN obj /\ "g2_winner" \in DOMAIN obj
         THEN obj.g1_winner
         ELSE ValueError

\* The combined winner of a line (common.py:488-497).
derive_winner(obj) ==
    IF "winner" \in DOMAIN obj
    THEN obj.winner
    ELSE IF "g1_winner" \in DOMAIN obj /\ "g2_winner" \in DOMAIN obj
         THEN IF obj.g1_winner = obj.g2_winner
              THEN obj.g1_winner
              ELSE "inconsistent"
         ELSE ValueError

\* if judge not in judge_dict: judge_dict[judge] = {}
with_judge(jd, judge) == IF judge \in DOMAIN jd THEN jd ELSE jd @@ (judge :> <<>>)

\* The body of the loop for one line whose winner fields are accepted
\* (common.py:481-506): the judge_dict after the line is stored.
load_line(jd, obj) ==
    LET judge == obj.judge
        jd1 == with_judge(jd, judge)
        key == <<obj.question_id, obj.model_1, obj.model_2>>
        value == [winners |-> <<derive_winner(obj)>>,
                  g1_judgment |-> obj.g1_judgment,
                  g2_judgment |-> obj.g2_judgment]
    IN  [jd1 EXCEPT ![judge] = DictSet(jd1[judge], key, value)]

InitLoad ==
    /\ pc = "reading"
    /\ lines = <<>> /\ judge_dict = <<>> /\ normalized = <<>>
    /\ IdleExplain
    /\ IdleNorm /\ IdleScore /\ IdleMatch /\ IdleRetry

\* for line in open(filename): one more line of a file of at most n lines is
\* read and stored.
read_line(n) ==
    /\ pc = "reading"
    /\ Len(lines) < n
    /\ \E judge \in Judges, qid \in LoaderQuestionIds, pair \in LoaderPairs,
          wf \in WinnerFields :
          LET obj == Obj(Len(lines) + 1, judge, qid, pair, wf)
          IN  /\ lines' = Append(lines, obj)
              /\ IF derive_winner(obj) = ValueError
                 THEN \* raise ValueError(f"Invalid keys: ...")
                      /\ pc' = "failed"
                      /\ judge_dict' = with_judge(judge_dict, judge)
                 ELSE /\ pc' = "reading"
                      /\ judge_dict' = load_line(judge_dict, obj)
    /\ UNCHANGED <<normalized, explain_vars>>
    /\ UNCHANGED <<norm_vars, score_vars, match_vars, retry_vars>>

ReadLine == read_line(MaxLines)

\* The file is exhausted: every judge's dict is normalised and the index
\* is returned (common.py:508-512).
EndOfFile ==
    /\ pc = "reading"
    /\ normalized' = [judge \in DOMAIN judge_dict |->
                        normalize_game_key_dict(judge_dict[judge])]
    /\ pc' = "done"
    /\ UNCHANGED <<lines, judge_dict, explain_vars>>
    /\ UNCHANGED <<norm_vars, score_vars, match_vars, retry_vars>>

NextLoad == ReadLine \/ EndOfFile

SpecLoad == InitLoad /\ [][NextLoad]_vars

\* ---------------------------------------------------- Explanation formatter

MaxRecords == 2     \* longest judgment file behind an explained index

\* A rendered text is the sequence of the pieces the f-string joins.
NA == <<"N/A">>

\* The two-section template (common.py:584-590); the rule between the
\* sections is written without the code quotes the source puts around it.
render(model_1, model_2, g1_judgment, g2_judgment) ==
    << "**Game 1**. **A**: ", model_1, ", **B**: ", model_2,
       "\n\n**Judgment**: ", g1_judgment,
       "\n\n--------------------------\n\n",
       "**Game 2**. **A**: ", model_2, ", **B**: ", model_1,
       "\n\n**Judgment**: ", g2_judgment >>

\* A variant of get_pairwise_judge_explanation: the else branch reads the
\* judgments in stored order.
get_pairwise_judge_explanation_stored(key, d) ==
    LET qid == key[1]
        model_1 == key[2]
        model_2 == key[3]
        new_gamekey == IF StrLess(model_1, model_2) THEN key
                       ELSE <<qid, model_2, model_1>>
    IN  IF new_gamekey \notin DictKeys(d)
        THEN NA
        ELSE LET res == DictGet(d, new_gamekey)
             IN  render(model_1, model_2, res.g1_judgment, res.g2_judgment)

\* get_pairwise_judge_explanation(gamekey, judgment_dict), common.py:570-592.
\* A KeyError of either lookup is caught and "N/A" returned.
get_pairwise_judge_explanation(key, d) ==
    LET qid == key[1]
        model_1 == key[2]
        model_2 == key[3]
    IN  IF StrLess(model_1, model_2)
        THEN IF key \notin DictKeys(d)
             THEN NA
             ELSE LET res == DictGet(d, key)
                  IN  render(model_1, model_2,
                             res.g1_judgment, res.g2_judgment)
        ELSE LET new_gamekey == <<qid, model_2, model_1>>
             IN  IF new_gamekey \notin DictKeys(d)
                 THEN NA
                 ELSE LET res == DictGet(d, new_gamekey)
                      IN  render(model_1, model_2,
                                 res.g2_judgment, res.g1_judgment)

\* One more line of a file of at most MaxRecords lines.
ReadRecord == read_line(MaxRecords)

\* A caller asks for the explanation of any game key under a judge of the
\* returned index.
Explain ==
    /\ pc = "done"
    /\ \E judge \in DOMAIN normalized, key \in GameKeys :
          /\ asked' = [judge |-> judge, gamekey |-> key]
          /\ explanation' = get_pairwise_judge_explanation(key, normalized[judge])
    /\ pc' = "explained"
    /\ UNCHANGED <<load_vars, norm_vars, score_vars, match_vars, retry_vars>>

NextExplain == ReadRecord \/ EndOfFile \/ Explain

SpecExplain == InitLoad /\ [][NextExplain]_vars

\* -------------------------------------------------- House-traversal scorer

\* A str is the sequence of its characters.
LowerChar(c) ==
    CASE c = "A" -> "a"
      [] c = "B" -> "b"
      [] c = "C" -> "c"
      [] OTHER -> c

\* str.lower()
Lower(s) == [i \in DOMAIN s |-> LowerChar(s[i])]

\* The number of "*" in a row from position p of s.
RECURSIVE StarRun(_, _)
StarRun(s, p) ==
    IF p <= Len(s) /\ s[p] = "*" THEN 1 + StarRun(s, p + 1) ELSE 0

AllStars(s, from, n) ==
    /\ from + n - 1 <= Len(s)
    /\ \A i \in from..(from + n - 1) : s[i] = "*"

\* The match of (\*{2,})(.*?)\1 that starts at p, as <<k, c>>: k markers, c
\* characters of text, k markers; <<0, 0>> when there is none.  The marker
\* group is greedy (the longest run is tried first) and the text lazy (the
\* shortest text that is followed by the same k markers).
MatchAt(s, p) ==
    LET run == StarRun(s, p)
        fits(k) == {c \in 0..Len(s) : AllStars(s, p + k + c, k)}
        ks == {k \in 2..run : fits(k) # {}}
    IN  IF ks = {}
        THEN <<0, 0>>
        ELSE LET k == CHOOSE x \in ks : \A y \in ks : y <= x
                 c == CHOOSE x \in fits(k) : \A y \in fits(k) : x <= y
             IN  <<k, c>>

\* re.findall(r'(\*{2,})(.*?)\1', s), scanning from p: the text (group 2) of
\* every match, left to right, the matches not overlapping.
RECURSIVE FindAllFrom(_, _)
FindAllFrom(s, p) ==
    IF p > Len(s)
    THEN <<>>
    ELSE LET m == MatchAt(s, p)
         IN  IF m[1] = 0
             THEN FindAllFrom(s, p + 1)
             ELSE <<SubSeq(s, p + m[1], p + m[1] + m[2] - 1)>>
                      \o FindAllFrom(s, p + 2 * m[1] + m[2])

\* str.split(" "): the pieces between single spaces (empty pieces kept).
RECURSIVE SplitFrom(_, _, _)
SplitFrom(s, p, piece) ==
    IF p > Len(s)
    THEN <<piece>>
    ELSE IF s[p] = " "
         THEN <<piece>> \o SplitFrom(s, p + 1, <<>>)
         ELSE SplitFrom(s, p + 1, Append(piece, s[p]))

Split(s) == SplitFrom(s, 1, <<>>)

\* `x in y` for two str.
IsSubstr(x, y) ==
    \E off \in 0..Len(y) :
        /\ off + Len(x) <= Len(y)
        /\ SubSeq(y, off + 1, off + Len(x)) = x

Reverse(s) == [i \in DOMAIN s |-> s[Len(s) + 1 - i]]

\* house_traversal_process_results(ground_truth, llm_answer): the value
\* returned, or raised = TRUE when last_bold[-1 - i] is out of range
\* (IndexError; the list is built in full before all() reads it).
house_traversal_process_results(gt, answer) ==
    LET bold_words == FindAllFrom(Lower(answer), 1)
        last_bold == bold_words[Len(bold_words)]
        ground_truth_names == Split(Lower(gt))
        reversed_names == Reverse(ground_truth_names)
    IN  IF Len(bold_words) = 0
        THEN [raised |-> FALSE, value |-> 0]
        ELSE IF \A n \in DOMAIN ground_truth_names :
                    IsSubstr(ground_truth_names[n], last_bold)
        THEN [raised |-> FALSE, value |-> 1]
        ELSE IF Len(bold_words) >= Len(ground_truth_names)
        THEN IF Len(ground_truth_names) > Len(last_bold)
             THEN [raised |-> TRUE, value |-> 0]
             ELSE IF \A n \in DOMAIN reversed_names :
                         \* i = n - 1; last_bold[-1 - i] is one character
                         IsSubstr(reversed_names[n],
                                  <<last_bold[Len(last_bold) + 1 - n]>>)
                  THEN [raised |-> FALSE, value |-> 1]
                  ELSE [raised |-> FALSE, value |-> 0]
        ELSE [raised |-> FALSE, value |-> 0]

MaxPieces == 3      \* most pieces an answer is put together from

\* The pieces answers are put together from.
AnswerPieces ==
    { <<"*", "*", "a", "*", "*">>,
      <<"*", "*", "b", "*", "*">>,
      <<"*", "*", "a", " ", "b", "*", "*">>,
      <<"*", "*", "*", "b", "*", "*", "*">>,
      <<"*", "*", "A", "*", "*">>,
      <<"*", "*">>,
      <<"x", " ">>,
      <<"*", "*", "b", "x", "*", "*">> }

GroundTruths ==
    { <<"a">>,
      <<"b">>,
      <<"a", " ", "b">>,
      <<"A", " ", "B">>,
      <<"b", " ", "a">>,
      <<"a", " ", " ", "b">>,
      <<"b", "x", " ", "a">> }

\* The inputs of the scorer's documented examples.
ExampleInputs ==
    { <<<<"A", "l", "i", "c", "e", " ", "B", "o", "b">>,
        <<"f", "i", "n", "a", "l", " ", "a", "n", "s", "w", "e", "r", ":", " ", "*", "*", "A", "l", "i", "c", "e", " ", "B", "o", "b", "*", "*">>>>,
      <<<<"A", "l", "i", "c", "e", " ", "B", "o", "b">>,
        <<"n", "o", " ", "b", "o", "l", "d", " ", "t", "e", "x", "t", " ", "h", "e", "r", "e">>>>,
      <<<<"A", "l", "i", "c", "e", " ", "B", "o", "b">>,
        <<"*", "*", "A", "l", "i", "c", "e", "*", "*", " ", "w", "e", "n", "t", " ", "h", "o", "m", "e", ",", " ", "*", "*", "B", "o", "b", "*", "*", " ", "s", "t", "a", "y", "e", "d">>>>,
      <<<<"A", "l", "i", "c", "e", " ", "B", "o", "b">>,
        <<"*", "*", "C", "a", "r", "o", "l", "*", "*", " ", "d", "i", "d", " ", "i", "t">>>> }

RECURSIVE Concat(_)
Concat(ss) == IF ss = <<>> THEN <<>> ELSE Head(ss) \o Concat(Tail(ss))

InitScore ==
    /\ pc = "call"
    /\ \/ /\ ground_truth \in GroundTruths
          /\ \E ps \in SeqsUpTo(AnswerPieces, MaxPieces) : llm_answer = Concat(ps)
       \/ \E ex \in ExampleInputs : ground_truth = ex[1] /\ llm_answer = ex[2]
    /\ score = <<>>
    /\ IdleNorm /\ IdleLoad /\ IdleExplain /\ IdleMatch /\ IdleRetry

\* score = house_traversal_process_results(ground_truth, llm_answer)
Score ==
    /\ pc = "call"
    /\ LET r == house_traversal_process_results(ground_truth, llm_answer)
       IN  IF r.raised
           THEN pc' = "raised" /\ score' = score
           ELSE pc' = "returned" /\ score' = r.value
    /\ UNCHANGED <<ground_truth, llm_answer>>
    /\ UNCHANGED <<norm_vars, load_vars, explain_vars, match_vars, retry_vars>>

NextScore == Score

SpecScore == InitScore /\ [][NextScore]_vars

\* ---------------------------------------------- Answer/Question reconciler

MaxQuestions == 2   \* most questions handed to check_data / make_match_single
MaxModels == 2      \* longest model list

\* The models that may have an answer file, and the questions.
AnswerModels == {"alpha", "beta"}
Turns == {<<"t1">>, <<"t1", "t2">>, <<"t1", "t2", "t3">>}
Questions == [question_id : QuestionIds, turns : Turns]

\* model_answers[model][question_id], as load_model_answers builds it: some
\* models have no file, and a file holds the answers to some questions.
Answer(m, qid) == [question_id |-> qid, model_id |-> m]
ModelAnswers ==
    UNION {[ms -> SUBSET QuestionIds] : ms \in SUBSET AnswerModels}
AnswersOf(answered) ==
    [m \in DOMAIN answered |-> [qid \in answered[m] |-> Answer(m, qid)]]

NoQuestion == 0     \* a failure that names a model only

Passed == [passed |-> TRUE, model |-> "", question_id |-> NoQuestion]
Missing(m, qid) == [passed |-> FALSE, model |-> m, question_id |-> qid]

\* A variant of check_data: the loops are nested the other way round (for q in
\* questions: for m in models).
RECURSIVE check_questions_first(_, _, _, _)
check_questions_first(qs, answers, ms, all_ms) ==
    IF qs = <<>>
    THEN Passed
    ELSE IF ms = <<>>
    THEN check_questions_first(Tail(qs), answers, all_ms, all_ms)
    ELSE IF Head(ms) \notin DOMAIN answers
    THEN Missing(Head(ms), NoQuestion)
    ELSE IF Head(qs).question_id \notin DOMAIN answers[Head(ms)]
    THEN Missing(Head(ms), Head(qs).question_id)
    ELSE check_questions_first(qs, answers, Tail(ms), all_ms)

check_data_questions_first(qs, answers, ms) ==
    check_questions_first(qs, answers, ms, ms)

\* for q in questions: assert q["question_id"] in m_answer
RECURSIVE check_questions(_, _, _)
check_questions(m, m_answer, qs) ==
    IF qs = <<>>
    THEN Passed
    ELSE IF Head(qs).question_id \notin DOMAIN m_answer
    THEN Missing(m, Head(qs).question_id)
    ELSE check_questions(m, m_answer, Tail(qs))

\* for m in models: assert m in model_answers; ...
RECURSIVE check_models(_, _, _)
check_models(qs, answers, ms) ==
    IF ms = <<>>
    THEN Passed
    ELSE IF Head(ms) \notin DOMAIN answers
    THEN Missing(Head(ms), NoQuestion)
    ELSE LET r == check_questions(Head(ms), answers[Head(ms)], qs)
         IN  IF r.passed THEN check_models(qs, answers, Tail(ms)) ELSE r

\* check_data(questions, model_answers, models): Passed, or the failed
\* assertion (the model and, when the message names one, the question).
check_data(qs, answers, ms) == check_models(qs, answers, ms)

\* MatchSingle(dict(q), m, a, multi_turn=multi_turn)
MatchSingle(q, m, a, mt) ==
    [question |-> q, model |-> m, answer |-> a, ref_answer |-> "None",
     multi_turn |-> mt]

KeyError == [raised |-> TRUE, matches |-> <<>>]

\* A variant of make_match_single: every question is matched, whatever the
\* number of its turns.
RECURSIVE match_all_questions(_, _, _, _, _, _)
match_all_questions(qs, ms, all_ms, answers, mt, acc) ==
    IF qs = <<>>
    THEN [raised |-> FALSE, matches |-> acc]
    ELSE IF ms = <<>>
    THEN match_all_questions(Tail(qs), all_ms, all_ms, answers, mt, acc)
    ELSE IF \/ Head(ms) \notin DOMAIN answers
            \/ Head(qs).question_id \notin DOMAIN answers[Head(ms)]
    THEN KeyError
    ELSE match_all_questions(qs, Tail(ms), all_ms, answers, mt,
             Append(acc, MatchSingle(Head(qs), Head(ms),
                                     answers[Head(ms)][Head(qs).question_id], mt)))

make_match_single_unfiltered(qs, ms, answers, mt) ==
    match_all_questions(qs, ms, ms, answers, mt, <<>>)

\* for q in questions: (skip q when multi_turn and len(q["turns"]) != 2)
\*     for i in range(len(models)): matches.append(...)
\* model_answers[m][q_id] raises KeyError for a missing model or question.
RECURSIVE match_questions(_, _, _, _, _, _)
match_questions(qs, ms, all_ms, answers, mt, acc) ==
    IF qs = <<>>
    THEN [raised |-> FALSE, matches |-> acc]
    ELSE IF (mt /\ Len(Head(qs).turns) # 2) \/ ms = <<>>
    THEN match_questions(Tail(qs), all_ms, all_ms, answers, mt, acc)
    ELSE IF \/ Head(ms) \notin DOMAIN answers
            \/ Head(qs).question_id \notin DOMAIN answers[Head(ms)]
    THEN KeyError
    ELSE match_questions(qs, Tail(ms), all_ms, answers, mt,
             Append(acc, MatchSingle(Head(qs), Head(ms),
                                     answers[Head(ms)][Head(qs).question_id], mt)))

\* make_match_single(questions, models, model_answers, multi_turn)
make_match_single(qs, ms, answers, mt) ==
    match_questions(qs, ms, ms, answers, mt, <<>>)

InitMatch ==
    /\ pc = "call"
    /\ questions \in SeqsUpTo(Questions, MaxQuestions)
    /\ models \in SeqsUpTo(AnswerModels, MaxModels)
    /\ \E answered \in ModelAnswers : model_answers = AnswersOf(answered)
    /\ multi_turn \in BOOLEAN
    /\ check_result = <<>> /\ match_result = <<>>
    /\ IdleNorm /\ IdleLoad /\ IdleExplain /\ IdleScore /\ IdleRetry

\* check_data(questions, model_answers, models)
CheckData ==
    /\ pc = "call"
    /\ check_result' = check_data(questions, model_answers, models)
    /\ pc' = "checked"
    /\ UNCHANGED <<match_args, match_result>>
    /\ UNCHANGED <<norm_vars, load_vars, explain_vars, score_vars, retry_vars>>

\* make_match_single(questions, models, model_answers, multi_turn), on the
\* arguments check_data was given.
MakeMatchSingle ==
    /\ pc = "checked"
    /\ match_result' = make_match_single(questions, models, model_answers, multi_turn)
    /\ pc' = "matched"
    /\ UNCHANGED <<match_args, check_result>>
    /\ UNCHANGED <<norm_vars, load_vars, explain_vars, score_vars, retry_vars>>

NextMatch == CheckData \/ MakeMatchSingle

SpecMatch == InitMatch /\ [][NextMatch]_vars

\* ------------------------------------------------ Provider retry loops

API_MAX_RETRY == 16
API_ERROR_OUTPUT == "$ERROR$"

\* The chat_completion_* functions.
Bindings ==
    {"openai", "vertex", "google_generativeai", "openai_azure", "anthropic",
     "mistral", "cohere", "palm"}

\* What one attempt (the body of the try) may raise: the error class of the
\* provider's SDK (openai.error.OpenAIError, anthropic.APIError: network and
\* authentication failures), openai.error.InvalidRequestError (a subclass of
\* OpenAIError), google's StopCandidateException, a KeyError or any other
\* Exception (an IndexError on an empty choices/content list, a TypeError).
Failures ==
    {"sdk_error", "invalid_request", "stop_candidate", "key_error", "other_error"}

\* The text of a successful response.
Texts == {"answer", " answer "}

\* str.strip() on the texts above and on the sentinel.
Strip(t) == IF t = " answer " THEN "answer" ELSE t

\* The bindings that return output.strip().
Stripping == {"vertex", "anthropic", "mistral", "cohere"}

\* The except clause that handles a failure: "retry" (sleep, next attempt),
\* "break" (leave the loop) or "propagate" (no clause matches).
handler(b, failure) ==
    CASE b = "google_generativeai" ->
            IF failure = "stop_candidate" THEN "break" ELSE "retry"
      [] b = "openai_azure" ->
            \* the first clause, OpenAIError, also takes InvalidRequestError
            IF failure \in {"sdk_error", "invalid_request"} THEN "retry"
            ELSE IF failure = "key_error" THEN "break"
            ELSE "propagate"
      [] b = "anthropic" ->
            IF failure = "sdk_error" THEN "retry" ELSE "propagate"
      [] OTHER -> "retry"    \* except Exception

\* return output / return output.strip()
returned(b, out) == IF b \in Stripping THEN Strip(out) ELSE out

NoAttempt == [kind |-> "none", text |-> ""]

InitRetry ==
    /\ pc = "loop"
    /\ binding \in Bindings
    /\ attempt = 0
    /\ output = API_ERROR_OUTPUT
    /\ last = NoAttempt
    /\ IdleNorm /\ IdleLoad /\ IdleExplain /\ IdleScore /\ IdleMatch

\* One pass of `for _ in range(API_MAX_RETRY)` whose call succeeds:
\* output = <the response's text>; break; the function returns.
AttemptSucceeds ==
    /\ pc = "loop"
    /\ attempt < API_MAX_RETRY
    /\ \E text \in Texts :
          /\ last' = [kind |-> "ok", text |-> text]
          /\ output' = returned(binding, text)
    /\ attempt' = attempt + 1
    /\ pc' = "returned"
    /\ UNCHANGED binding
    /\ UNCHANGED <<norm_vars, load_vars, explain_vars, score_vars, match_vars>>

\* One pass whose call raises: the matching except clause sleeps and goes on
\* (the function returns once the range is exhausted) or breaks out of the
\* loop; with no matching clause the exception leaves the function.
AttemptFails ==
    /\ pc = "loop"
    /\ attempt < API_MAX_RETRY
    /\ \E failure \in Failures :
          LET to == CASE handler(binding, failure) = "propagate" -> "raised"
                      [] handler(binding, failure) = "break" -> "returned"
                      [] OTHER -> IF attempt + 1 = API_MAX_RETRY
                                  THEN "returned"
                                  ELSE "loop"
          IN  /\ last' = [kind |-> failure, text |-> ""]
              /\ pc' = to
              /\ output' = IF to = "returned"
                           THEN returned(binding, output)
                           ELSE output
    /\ attempt' = attempt + 1
    /\ UNCHANGED binding
    /\ UNCHANGED <<norm_vars, load_vars, explain_vars, score_vars, match_vars>>

NextRetry == AttemptSucceeds \/ AttemptFails

SpecRetry == InitRetry /\ [][NextRetry]_vars

\* ====================================================== claims: SpecNorm

Reversed(key) == StrLess(key[3], key[2])

\* The canonical form of a key: the two model names in sorted order.
SortedKey(key) == IF Reversed(key) THEN <<key[1], key[3], key[2]>> ELSE key

\* C4: for a key (q, a, b) with a > b, normalize_game_key_single returns the
\* key (q, b, a) and a result whose g1_judgment is the input's g2_judgment and
\* whose g2_judgment is the input's g1_judgment, with as many winners as the
\* input has; the caller's key and result are as they were given.
C4_ReversedKeySwapped ==
    (pc \in {"normalized", "renormalized"} /\ Reversed(gamekey)) =>
        /\ once[1] = <<gamekey[1], gamekey[3], gamekey[2]>>
        /\ once[2].g1_judgment = result.g2_judgment
        /\ once[2].g2_judgment = result.g1_judgment
        /\ Len(once[2].winners) = Len(result.winners)
        /\ <<gamekey, result>> = given

C4_Witness ==
    /\ pc = "normalized"
    /\ Reversed(gamekey)
    /\ result.g1_judgment # result.g2_judgment
    /\ Len(result.winners) = MaxWinners

\* C5: normalize_game_key_single is idempotent: applied to its own output it
\* returns that key and result unchanged, for every key, also one whose two
\* model names are equal.
C5_Idempotent == pc = "renormalized" => twice = once

\* Two distinct keys of a dict have the same canonical form.
Collides(d) ==
    \E k1 \in DictKeys(d), k2 \in DictKeys(d) :
        k1 # k2 /\ SortedKey(k1) = SortedKey(k2)

\* C3: normalize_game_key_dict never silently overwrites: it returns a mapping
\* only for an input in which no two distinct keys normalise to the same
\* canonical key (on such an input the call fails).
C3_CollisionFails == pc = "dict_normalized" => ~Collides(judgment_dict)

\* ====================================================== claims: SpecLoad

\* The (judge, game key) pairs of the returned index.
StoredKeys ==
    UNION {{<<judge, key>> : key \in DictKeys(normalized[judge])} :
           judge \in DOMAIN normalized}

Stored(e) == DictGet(normalized[e[1]], e[2])

RawKey(obj) == <<obj.question_id, obj.model_1, obj.model_2>>

\* The line a stored result was read from (its judgment texts name it).
SourceLine(e) == lines[Stored(e).g1_judgment[1]]

\* C1 (as stated): every game key stored under every judge in the returned
\* index satisfies model_1 < model_2.
C1_KeysStrictlySorted ==
    pc = "done" => \A e \in StoredKeys : StrLess(e[2][2], e[2][3])

\* C1 (amended): every game key stored under every judge in the returned index
\* satisfies model_1 <= model_2, and model_1 < model_2 unless a line of that
\* judge names that one model as both model_1 and model_2.
C1_KeysSorted ==
    pc = "done" =>
        \A e \in StoredKeys :
            \/ StrLess(e[2][2], e[2][3])
            \/ /\ e[2][2] = e[2][3]
               /\ \E n \in DOMAIN lines :
                     /\ lines[n].judge = e[1]
                     /\ RawKey(lines[n]) = e[2]

C1_Witness ==
    /\ pc = "done"
    /\ \E n \in DOMAIN lines : Reversed(RawKey(lines[n]))
    /\ \E n \in DOMAIN lines : lines[n].model_1 = lines[n].model_2

\* The last line, in file order, of a judge and a canonical game key.
LastLine(judge, key) ==
    LET ns == {n \in DOMAIN lines :
                 lines[n].judge = judge /\ SortedKey(RawKey(lines[n])) = key}
    IN  lines[CHOOSE n \in ns : \A m \in ns : m <= n]

\* C2: last-write-wins: the result stored for a (judge, game key) pair is the
\* normalised result of the last line, in file order, that has that judge and
\* that canonical game key, whichever order the lines name the two models in.
C2_LastWriteWins ==
    pc = "done" =>
        \A e \in StoredKeys :
            LET obj == LastLine(e[1], e[2])
                value == [winners |-> <<derive_winner(obj)>>,
                          g1_judgment |-> obj.g1_judgment,
                          g2_judgment |-> obj.g2_judgment]
            IN  Stored(e) = normalize_game_key_single(RawKey(obj), value)[2]

\* The combined winner the claim describes for a line.
ClaimedWinner(obj) ==
    IF "winner" \in DOMAIN obj
    THEN obj.winner
    ELSE IF obj.g1_winner = obj.g2_winner THEN obj.g1_winner ELSE "inconsistent"

NoCombination(obj) ==
    /\ "winner" \notin DOMAIN obj
    /\ ~("g1_winner" \in DOMAIN obj /\ "g2_winner" \in DOMAIN obj)

\* A line with no accepted winner fields makes the load fail, and nothing
\* else does; a failed load returns no index.
FailsOnNoCombination ==
    /\ (\E n \in DOMAIN lines : NoCombination(lines[n])) <=> pc = "failed"
    /\ pc = "failed" => normalized = <<>>

Spans == FindAllFrom(Lower(llm_answer), 1)
Tokens == Split(Lower(ground_truth))

\* The score the claim describes: 1 exactly when there is a span and either
\* every token is in the last span, or there are at least as many spans as
\* tokens and the i-th token from the end is in the i-th span from the end.
ClaimedScore ==
    IF /\ Len(Spans) > 0
       /\ \/ \A n \in DOMAIN Tokens : IsSubstr(Tokens[n], Spans[Len(Spans)])
          \/ /\ Len(Spans) >= Len(Tokens)
             /\ \A i \in 0..(Len(Tokens) - 1) :
                   IsSubstr(Tokens[Len(Tokens) - i], Spans[Len(Spans) - i])
    THEN 1
    ELSE 0

\* C6: house_traversal_process_results never fails and returns the score the
\* claim describes (so the spans 'alice', 'bob' against the tokens 'alice',
\* 'bob' score 1).
C6_ScoreAsClaimed ==
    /\ pc # "raised"
    /\ pc = "returned" => score = ClaimedScore

\* ===================================================== claims: SpecMatch

Checked == pc \in {"checked", "matched"}

HasAnswer(m, q) ==
    m \in DOMAIN model_answers /\ q.question_id \in DOMAIN model_answers[m]

Least(S) == CHOOSE x \in S : \A y \in S : x <= y

\* The (question, model) positions with no answer, and the first of them with
\* the questions as the outer order and the models as the inner order.
MissingPairs ==
    {p \in (DOMAIN questions) \X (DOMAIN models) :
        ~HasAnswer(models[p[2]], questions[p[1]])}

FirstMissingByQuestion ==
    LET i == Least({p[1] : p \in MissingPairs})
        j == Least({p[2] : p \in {x \in MissingPairs : x[1] = i}})
    IN  Missing(models[j], questions[i].question_id)

\* C7 (as stated): when answers are missing, check_data fails and the failure
\* identifies the first missing (model, question) pair in question-then-model
\* order (a failure whose message names no question identifies the pair by
\* its model).
C7_FirstMissingByQuestion ==
    (Checked /\ MissingPairs # {}) =>
        /\ ~check_result.passed
        /\ check_result.model = FirstMissingByQuestion.model
        /\ check_result.question_id \in
               {FirstMissingByQuestion.question_id, NoQuestion}

\* The models of the list with something missing: no entry in model_answers,
\* or an entry that lacks a question.
IncompleteModels ==
    {j \in DOMAIN models :
        \/ models[j] \notin DOMAIN model_answers
        \/ \E i \in DOMAIN questions : ~HasAnswer(models[j], questions[i])}

FirstMissingByModel ==
    LET j == Least(IncompleteModels)
        m == models[j]
    IN  IF m \notin DOMAIN model_answers
        THEN Missing(m, NoQuestion)
        ELSE Missing(m, questions[Least({i \in DOMAIN questions :
                                            ~HasAnswer(m, questions[i])})].question_id)

\* C7 (amended): check_data fails exactly when a model of the list has no
\* entry in model_answers or lacks a question, and the failure identifies the
\* first miss in model-then-question order: the first such model in list
\* order, alone when it has no entry at all, else with the first question in
\* input order it lacks.
C7_FirstMissingByModel ==
    Checked =>
        IF IncompleteModels = {}
        THEN check_result = Passed
        ELSE check_result = FirstMissingByModel

C7_Witness ==
    /\ pc = "checked"
    /\ Cardinality(MissingPairs) >= 2
    /\ \A j \in DOMAIN models : models[j] \in DOMAIN model_answers
    /\ check_result = FirstMissingByModel
    /\ check_result # FirstMissingByQuestion

\* The questions make_match_single is to match, in input order.
Eligible ==
    SelectSeq(questions, LAMBDA q : ~multi_turn \/ Len(q.turns) = 2)

C9_UniformRetryContract ==
    /\ attempt <= API_MAX_RETRY
    /\ pc = "loop" => last.kind # "ok"
    /\ pc # "raised"
    /\ pc = "returned" =>
          Strip(output) = IF last.kind = "ok"
                          THEN Strip(last.text)
                          ELSE API_ERROR_OUTPUT

\* ------------------------------------------- claims: Explanation formatter

\* The parts of a rendered explanation.
Game1A(text) == text[2]
Game1Judgment(text) == text[6]
Game2Judgment(text) == text[13]

\* An explanation was asked of the index of a one-record file.
ExplainedSingle == pc = "explained" /\ Len(lines) = 1

\* The key with its two models exchanged.
Swapped(key) == <<key[1], key[3], key[2]>>

\* The canonical form of the asked key is not a key of the asked judge's dict.
AskedAbsent == SortedKey(asked.gamekey) \notin DictKeys(normalized[asked.judge])

\* The explanation shows the judgments ga, gb under Game 1, Game 2 and names
\* the caller's first model as A of Game 1.
Shows(ga, gb) ==
    /\ explanation # NA
    /\ Game1Judgment(explanation) = ga
    /\ Game2Judgment(explanation) = gb
    /\ Game1A(explanation) = asked.gamekey[2]

\* C11, as stated: over the index of a single record (q, m1, m2) with
\* judgments g1, g2, the key in the record's order shows g1 under Game 1 and
\* g2 under Game 2, the reversed key (q, m2, m1) shows g2 under Game 1 and g1
\* under Game 2, Game 1 names the caller's first model as A, and a key whose
\* canonical form is absent yields "N/A".
C11_PositionConsistent ==
    ExplainedSingle =>
        LET rec == lines[1]
        IN  /\ asked.gamekey = RawKey(rec)
                => Shows(rec.g1_judgment, rec.g2_judgment)
            /\ asked.gamekey = Swapped(RawKey(rec))
                => Shows(rec.g2_judgment, rec.g1_judgment)
            /\ AskedAbsent => explanation = NA

\* C11, amended: the reversed-key half holds when the record's two models
\* differ; a record naming one model twice has a key that is its own reverse,
\* and it shows g1 under Game 1 and g2 under Game 2.
C11_PositionConsistentDistinct ==
    ExplainedSingle =>
        LET rec == lines[1]
        IN  /\ asked.gamekey = RawKey(rec)
                => Shows(rec.g1_judgment, rec.g2_judgment)
            /\ (asked.gamekey = Swapped(RawKey(rec)) /\ rec.model_1 # rec.model_2)
                => Shows(rec.g2_judgment, rec.g1_judgment)
            /\ AskedAbsent => explanation = NA

\* The record names its models in descending order, so the loader stored it
\* swapped, and the caller asked with the reversed key.
C11_Witness ==
    /\ ExplainedSingle
    /\ Reversed(RawKey(lines[1]))
    /\ asked.gamekey = Swapped(RawKey(lines[1]))
    /\ Shows(lines[1].g2_judgment, lines[1].g1_judgment)

====
